---- MODULE Spec2Model ----
(***************************************************************************)
(* ApertureDB storage backend of label-studio                              *)
(* (label_studio/io_storages/aperturedb/models.py).                        *)
(*                                                                         *)
(* Specifications over one set of variables:                               *)
(*   SpecMerge     the region loop of save_annotation with AnnotationBBox, *)
(*   SpecScan      iterkeys and _get_bbox_annotations on one storage,      *)
(*   SpecIter      iterkeys alone, run to its end by its consumer,         *)
(*   SpecRead      the reads on a small store with faulty answers,         *)
(*   SpecSave      save_annotation / delete_annotation against the store,  *)
(*   SpecRace      two jobs saving, one after the other or interleaved,    *)
(*   SpecConn      get_connection called from several threads,             *)
(*   SpecDispatch  the signal receivers and the jobs they enqueue.         *)
(* The ApertureDB server is the environment: its answers are modelled by   *)
(* the Store* operators, and its faults by nondeterministic choice.        *)
(***************************************************************************)
EXTENDS Integers, Sequences, FiniteSets, TLC

(***************************************************************************)
(* Bounds of the model.                                                    *)
(***************************************************************************)
MaxFrags == 2
MaxCalls == 2
MaxImages == 201       \* images in the store that match the constraints
MaxQueries == 2        \* batched annotation queries issued for one page
MaxDup == 2            \* boxes of one identifier the store creates on one image
MaxText == 3           \* length of a text list of an annotation object
MaxGetCalls == 2       \* get_connection calls of one thread
MaxStorages == 2       \* export storages of one project
MaxEvents == 3         \* annotation signals handled

(***************************************************************************)
(* Generic helpers.                                                        *)
(***************************************************************************)
Range(s) == {s[i] : i \in DOMAIN s}

SetMax(S) == CHOOSE m \in S : \A n \in S : n <= m

\* A quotient rounded down instead of cut toward zero.
Trunc_floor(n, d) == n \div d

\* Python int() of the quotient n / d (d > 0): truncation toward zero.
Trunc(n, d) == IF n >= 0 THEN n \div d ELSE -((-n) \div d)

\* A dict without one key.
Without(d, key) == [k \in DOMAIN d \ {key} |-> d[k]]

\* A dict with one key set (added or replaced).
With(d, key, val) == [k \in DOMAIN d \cup {key} |-> IF k = key THEN val ELSE d[k]]

\* A test that every string passes.
startswith_any(s, prefix) == TRUE

\* str.startswith on strings held as sequences of characters.
startswith(s, prefix) ==
    /\ Len(s) >= Len(prefix)
    /\ SubSeq(s, 1, Len(prefix)) = prefix

RECTANGLE == <<"r", "e", "c", "t", "a", "n", "g", "l", "e">>
RECTANGLELABELS == RECTANGLE \o <<"l", "a", "b", "e", "l", "s">>
TEXTAREA == <<"t", "e", "x", "t", "a", "r", "e", "a">>

(***************************************************************************)
(* AnnotationBBox.                                                         *)
(*                                                                         *)
(* A fragment (one element of annotation.result) is a dict: a function     *)
(* from key names; optional keys are simply absent.  Percentages are       *)
(* decimals held as integers in units of 1 / PctScale.                     *)
(* An exception is a record [raised |-> <class>, msg |-> <what>]; NoError  *)
(* stands for normal completion.                                           *)
(***************************************************************************)
PctScale == 10

NoError == [raised |-> "none", msg |-> "none"]
ValueError(m) == [raised |-> "ValueError", msg |-> m]

\* AnnotationBBox._get reduced to its test: the keys of obj that are missing.
Missing(obj, keys) == {k \in keys : k \notin DOMAIN obj}

\* The pixel rectangle of lines 356-361.
PixelRect(val, original_width, original_height) ==
    [x      |-> Trunc(val["x"] * original_width, PctScale * 100),
     y      |-> Trunc(val["y"] * original_height, PctScale * 100),
     width  |-> Trunc(val["width"] * original_width, PctScale * 100),
     height |-> Trunc(val["height"] * original_height, PctScale * 100)]

\* The tests of lines 353 and 362.
ImageRotationIsZero(ann) == ann["image_rotation"] = 0

\* The rotation of the value left unchecked.
RotationIsZero_unchecked(val) == TRUE

RotationIsZero(val) == val["rotation"] = 0

\* The other list put in front instead of appended.
extend_front(lst, other) == other \o lst

\* list.extend: the list with the other appended.
extend(lst, other) == lst \o other

\* The label test that lets every list pass.
TooManyLabels_never(labels) == FALSE

\* The test of lines 365 and 389: more than one label.
TooManyLabels(labels) == Len(labels) > 1

\* AnnotationBBox.__init__(ann) for the fragment at index k of the result.
\* labels_ref / text_ref name the fragment whose list object the box holds
\* (self.labels = val["rectanglelabels"] shares the list), 0 for a new list.
AnnotationBBox(ann, k) ==
    IF Missing(ann, {"original_width"}) # {}
    THEN [err |-> ValueError("missing original_width")]
    ELSE IF Missing(ann, {"original_height"}) # {}
    THEN [err |-> ValueError("missing original_height")]
    ELSE IF Missing(ann, {"image_rotation"}) # {}
    THEN [err |-> ValueError("missing image_rotation")]
    ELSE IF ~ImageRotationIsZero(ann)
    THEN [err |-> ValueError("image_rotation")]
    ELSE IF Missing(ann, {"value"}) # {}
    THEN [err |-> ValueError("missing value")]
    ELSE LET val == ann["value"] IN
    IF Missing(val, {"x", "y", "width", "height"}) # {}
    THEN [err |-> ValueError("missing coordinate")]
    ELSE IF Missing(val, {"rotation"}) # {}
    THEN [err |-> ValueError("missing rotation")]
    ELSE IF ~RotationIsZero(val)
    THEN [err |-> ValueError("rotation")]
    ELSE LET labels == IF "rectanglelabels" \in DOMAIN val
                       THEN val["rectanglelabels"] ELSE <<>>
         IN
    IF TooManyLabels(labels)
    THEN [err |-> ValueError("labels")]
    ELSE [err |-> NoError,
          box |-> [original_width  |-> ann["original_width"],
                   original_height |-> ann["original_height"],
                   rect   |-> PixelRect(val, ann["original_width"],
                                        ann["original_height"]),
                   labels |-> labels,
                   labels_ref |-> IF "rectanglelabels" \in DOMAIN val
                                  THEN k ELSE 0,
                   text   |-> IF "text" \in DOMAIN val THEN val["text"] ELSE <<>>,
                   text_ref |-> IF "text" \in DOMAIN val THEN k ELSE 0]]

\* The comparison with the height of the rectangle left out.
_attr_must_match_noheight(self, other) ==
    IF self.original_width # other.original_width THEN "original_width"
    ELSE IF self.original_height # other.original_height THEN "original_height"
    ELSE IF self.rect.x # other.rect.x THEN "x"
    ELSE IF self.rect.y # other.rect.y THEN "y"
    ELSE IF self.rect.width # other.rect.width THEN "width"
    ELSE "none"

\* AnnotationBBox._attr_must_match over the six attributes, in the order of
\* lines 381-386: the first attribute that differs, or "none".
_attr_must_match(self, other) ==
    IF self.original_width # other.original_width THEN "original_width"
    ELSE IF self.original_height # other.original_height THEN "original_height"
    ELSE IF self.rect.x # other.rect.x THEN "x"
    ELSE IF self.rect.y # other.rect.y THEN "y"
    ELSE IF self.rect.width # other.rect.width THEN "width"
    ELSE IF self.rect.height # other.rect.height THEN "height"
    ELSE "none"

\* The list under `key` of the value of fragment f; empty when the key is absent.
ListOf(f, key) == IF key \in DOMAIN f["value"] THEN f["value"][key] ELSE <<>>

\* The list of fragment `ref` of the result replaced by `lst` (an in-place
\* extend of a list object that the fragment's value shares).
SetList(res, ref, key, lst) ==
    IF ref = 0 THEN res
    ELSE [res EXCEPT ![ref] = With(res[ref], "value", With(res[ref]["value"], key, lst))]

\* AnnotationBBox.merge(self, other) where other is the fragment at index k.
\* Returns the error, the box and the result list as the call leaves them.
merge(self, ann, k, res) ==
    LET o == AnnotationBBox(ann, k) IN
    IF o.err # NoError THEN [err |-> o.err, box |-> self, result |-> res]
    ELSE IF _attr_must_match(self, o.box) # "none"
    THEN [err |-> ValueError(_attr_must_match(self, o.box)), box |-> self, result |-> res]
    ELSE LET labels == extend(self.labels, o.box.labels)
             res1   == SetList(res, self.labels_ref, "rectanglelabels", labels)
         IN
    IF TooManyLabels(labels)
    THEN [err |-> ValueError("labels"),
          box |-> [self EXCEPT !.labels = labels], result |-> res1]
    ELSE LET text == extend(self.text, o.box.text) IN
         [err |-> NoError,
          box |-> [self EXCEPT !.labels = labels, !.text = text],
          result |-> SetList(res1, self.text_ref, "text", text)]

(***************************************************************************)
(* The region loop of save_annotation (lines 401-411).                     *)
(* bbox_map is a function from identifiers to boxes, `order` the           *)
(* insertion order of its keys (a Python dict iterates in that order).     *)
(***************************************************************************)
EmptyMap == [i \in {} |-> 0]

RECURSIVE MergeLoop(_, _, _, _)
MergeLoop(res, k, map, order) ==
    IF k > Len(res)
    THEN [err |-> NoError, bbox_map |-> map, order |-> order, result |-> res]
    ELSE LET ann == res[k] IN
    IF "type" \notin DOMAIN ann
    THEN MergeLoop(res, k + 1, map, order)
    ELSE IF ann["id"] \in DOMAIN map
    THEN LET m == merge(map[ann["id"]], ann, k, res) IN
         IF m.err # NoError
         THEN [err |-> m.err, bbox_map |-> EmptyMap, order |-> <<>>, result |-> m.result]
         ELSE MergeLoop(m.result, k + 1, With(map, ann["id"], m.box), order)
    ELSE IF startswith(ann["type"], RECTANGLE)
    THEN LET b == AnnotationBBox(ann, k) IN
         IF b.err # NoError
         THEN [err |-> b.err, bbox_map |-> EmptyMap, order |-> <<>>, result |-> res]
         ELSE MergeLoop(res, k + 1, With(map, ann["id"], b.box),
                        Append(order, ann["id"]))
    ELSE MergeLoop(res, k + 1, map, order)

MergeRegions(res) == MergeLoop(res, 1, EmptyMap, <<>>)

(***************************************************************************)
(* Input domain of the merge: fragments built from six aspects, taken      *)
(* within one aspect of two base fragments (a labelled rectangle and the   *)
(* per-region text area that follows it in a Label Studio result).         *)
(***************************************************************************)
Ids == {"r1", "r2"}

\* original_width, original_height and the four percentages (in 1/PctScale).
Shapes ==
    << [w |-> 800, h |-> 600, x |-> 100, y |-> 100, width |-> 500,  height |-> 200],
       [w |-> 800, h |-> 600, x |-> 101, y |-> 100, width |-> 500,  height |-> 200],
       [w |-> 800, h |-> 600, x |-> 200, y |-> 100, width |-> 500,  height |-> 200],
       [w |-> 800, h |-> 600, x |-> 100, y |-> 200, width |-> 500,  height |-> 200],
       [w |-> 800, h |-> 600, x |-> 100, y |-> 100, width |-> 250,  height |-> 200],
       [w |-> 800, h |-> 600, x |-> 100, y |-> 100, width |-> 500,  height |-> 100],
       [w |-> 400, h |-> 600, x |-> 200, y |-> 100, width |-> 1000, height |-> 200],
       [w |-> 800, h |-> 300, x |-> 100, y |-> 200, width |-> 500,  height |-> 400],
       [w |-> 800, h |-> 600, x |-> -1,  y |-> 100, width |-> 500,  height |-> 200] >>

Kinds == {<<>>, RECTANGLELABELS, RECTANGLE, TEXTAREA}     \* <<>>: no "type" key
Rots == {"zero", "image", "value", "nokey"}
ListOpts == {[has |-> FALSE, list |-> <<>>], [has |-> TRUE, list |-> <<>>]}
LabelOpts == ListOpts \cup {[has |-> TRUE, list |-> <<"cat">>],
                            [has |-> TRUE, list |-> <<"cat", "dog">>]}
TextOpts == {[has |-> FALSE, list |-> <<>>], [has |-> TRUE, list |-> <<"a">>],
             [has |-> TRUE, list |-> <<"b">>]}

Aspects == [kind : Kinds, id : Ids, shape : DOMAIN Shapes, rot : Rots,
            labels : LabelOpts, text : TextOpts]

BaseRect == [kind |-> RECTANGLELABELS, id |-> "r1", shape |-> 1, rot |-> "zero",
             labels |-> [has |-> TRUE, list |-> <<"cat">>],
             text |-> [has |-> TRUE, list |-> <<"a">>]]
BaseText == [kind |-> TEXTAREA, id |-> "r1", shape |-> 1, rot |-> "zero",
             labels |-> [has |-> FALSE, list |-> <<>>],
             text |-> [has |-> TRUE, list |-> <<"b">>]]

Dist(a, b) == Cardinality({f \in DOMAIN a : a[f] # b[f]})

Frag(a) ==
    LET s  == Shapes[a.shape]
        v0 == [x |-> s.x, y |-> s.y, width |-> s.width, height |-> s.height,
               rotation |-> IF a.rot = "value" THEN 45 ELSE 0]
        v1 == IF a.labels.has THEN With(v0, "rectanglelabels", a.labels.list) ELSE v0
        v2 == IF a.text.has THEN With(v1, "text", a.text.list) ELSE v1
        f0 == [id |-> a.id, original_width |-> s.w, original_height |-> s.h,
               image_rotation |-> IF a.rot = "image" THEN 90 ELSE 0,
               value |-> v2]
        f1 == IF a.rot = "nokey" THEN Without(f0, "image_rotation") ELSE f0
    IN  IF a.kind = <<>> THEN f1 ELSE With(f1, "type", a.kind)

Fragments == {Frag(a) : a \in {t \in Aspects : Dist(t, BaseRect) <= 1 \/ Dist(t, BaseText) <= 1}}

FragSeqs == UNION {[1..n -> Fragments] : n \in 0..MaxFrags}

(***************************************************************************)
(* State.                                                                  *)
(***************************************************************************)
VARIABLES
    result,     \* annotation.result of the annotation being merged
    result0,    \* its value when the latest merge began
    bbox_map,   \* bbox_map after the latest merge
    order,      \* iteration order of bbox_map
    raised,     \* the exception of the latest merge, or NoError
    calls       \* merges run on this annotation object

mergeVars == <<result, result0, bbox_map, order, raised, calls>>

VARIABLES
    images,     \* store: the images matching the constraints, in store order
    limit,      \* self.limit (0: not set)
    scan_pc,    \* the iterkeys generator: "idle", "start", "yielding", "done", "failed"
    offset,     \* offset of iterkeys
    ids,        \* ids of the page being yielded
    idx,        \* number of ids of that page already yielded
    yielded,    \* keys yielded by the current iterkeys call
    offsets,    \* offsets of the FindImage queries of the current call
    attrs,      \* which of _last_iterkeys, _bbox_annotation_cache exist (hasattr)
    _last_iterkeys,
    _bbox_annotation_cache,
    batchQueries,   \* batched annotation queries issued since the last page
    batchServed,    \* those that the store answered with status 0
    lastRead        \* the latest _get_bbox_annotations call and its outcome

scanVars == <<images, limit, scan_pc, offset, ids, idx, yielded, offsets, attrs,
              _last_iterkeys, _bbox_annotation_cache, batchQueries, batchServed,
              lastRead>>

VARIABLES
    annots,       \* the Annotation objects: id, image, project and result
    store_anns,   \* store: the LS_annotation entities
    store_boxes,  \* store: the bounding boxes
    wpc,          \* per job: "idle", or "scanned" between the two queries of save
    wjob,         \* per job: the locals of its save_annotation call
    lastOp,       \* the latest finished save_annotation / delete_annotation
    sched         \* "serial": jobs run one after another; "concurrent": they interleave

saveVars == <<annots, store_anns, store_boxes, wpc, wjob, lastOp, sched>>

VARIABLES
    _db,          \* self._db of one storage object: NoConnection or a connector
    _db_lock,     \* _db_lock: NoThread, or the thread that holds it
    tpc,          \* per thread: its position in get_connection, or "idle"
    tcall,        \* per thread: its current or latest get_connection call
    connectors,   \* Connector objects constructed so far
    returns       \* the values get_connection calls have returned

connVars == <<_db, _db_lock, tpc, tcall, connectors, returns>>

VARIABLES
    storages,     \* export storages of the project of the annotation
    jobs,         \* jobs handed to start_job_async_or_sync, not yet run
    events,       \* annotation signals handled so far
    lastEvent,    \* the latest signal and what its handler did
    opCalls       \* storage operations run by jobs so far

dispatchVars == <<storages, jobs, events, lastEvent, opCalls>>

vars == <<mergeVars, scanVars, saveVars, connVars, dispatchVars>>

(***************************************************************************)
(* SpecMerge: the region loop run (repeatedly) on one annotation object.   *)
(***************************************************************************)
InitMergeVars ==
    /\ result0 = result
    /\ bbox_map = EmptyMap
    /\ order = <<>>
    /\ raised = NoError
    /\ calls = 0

NoRead == [path |-> "none", key |-> 0, raised |-> "none", ret |-> <<>>]

\* The storage object before any iterkeys call.
InitScanVars ==
    /\ scan_pc = "idle"
    /\ offset = 0
    /\ ids = <<>>
    /\ idx = 0
    /\ yielded = <<>>
    /\ offsets = <<>>
    /\ attrs = {}
    /\ _last_iterkeys = {}
    /\ _bbox_annotation_cache = EmptyMap
    /\ batchQueries = 0
    /\ batchServed = 0
    /\ lastRead = NoRead

Writers == {1, 2}

NoJob == [ann |-> "none", bbox_map |-> EmptyMap, order |-> <<>>,
          bbox_id_fields |-> EmptyMap, repeat |-> FALSE, fault |-> FALSE,
          scan_status |-> 0, seen |-> {}]

NoOp == [op |-> "none", ann |-> "none", stage |-> "none", raised |-> "none",
         queries |-> 0, statuses |-> <<>>, fault |-> FALSE, repeat |-> FALSE,
         inserted |-> 0, found |-> FALSE, changed |-> FALSE,
         scan_status |-> 0, seen |-> {}, commands |-> <<>>, order |-> <<>>,
         applied |-> FALSE]

\* No export storage at work.
InitSaveVars ==
    /\ wpc = [w \in Writers |-> "idle"]
    /\ wjob = [w \in Writers |-> NoJob]
    /\ lastOp = NoOp

NoConnection == 0
NoThread == 0
Threads == {1, 2, 3}

NoCall == [n |-> 0, path |-> "none", ret |-> NoConnection, raised |-> FALSE]

\* A storage object on which get_connection was never called (lines 50-51).
InitConnVars ==
    /\ _db = NoConnection
    /\ _db_lock = NoThread
    /\ tpc = [t \in Threads |-> "idle"]
    /\ tcall = [t \in Threads |-> NoCall]
    /\ connectors = 0
    /\ returns = {}

NoEvent == [operation |-> "none", exists |-> FALSE, scheduled |-> FALSE]

\* No signal handled yet, no job waiting.
InitDispatchVars ==
    /\ jobs = <<>>
    /\ events = 0
    /\ lastEvent = NoEvent
    /\ opCalls = 0

InitMerge ==
    /\ result \in FragSeqs
    /\ InitMergeVars
    /\ images = <<>>
    /\ limit = 0
    /\ InitScanVars
    /\ annots = EmptyMap
    /\ store_anns = {}
    /\ store_boxes = {}
    /\ InitSaveVars
    /\ sched = "serial"
    /\ InitConnVars
    /\ storages = 0
    /\ InitDispatchVars

MergeCall ==
    /\ calls < MaxCalls
    /\ LET m == MergeRegions(result) IN
        /\ result0' = result
        /\ result' = m.result
        /\ bbox_map' = m.bbox_map
        /\ order' = m.order
        /\ raised' = m.err
    /\ calls' = calls + 1
    /\ UNCHANGED <<scanVars, saveVars, connVars, dispatchVars>>

NextMerge == MergeCall

SpecMerge == InitMerge /\ [][NextMerge]_vars

(***************************************************************************)
(* Responses of the store.                                                 *)
(***************************************************************************)
\* A response of db.query: a list with one status per command, or a single
\* dict carrying a status.
ListResponse(statuses) == [kind |-> "list", statuses |-> statuses]
DictResponse(status) == [kind |-> "dict", statuses |-> <<status>>]

\* _response_status (lines 55-62): the maximum over a list, the status of a dict.
_response_status(response) ==
    IF response.kind = "list"
    THEN SetMax(Range(response.statuses))
    ELSE response.statuses[1]

\* The answers of a store that fails a query whose commands would report
\* `statuses`: an error dict, or the list with the status of the last command
\* replaced by an error code or by 1.
Faults(statuses) ==
    {DictResponse(-1)} \cup
    {ListResponse([statuses EXCEPT ![Len(statuses)] = st]) : st \in {-1, 1}}

(***************************************************************************)
(* SpecScan: iterkeys and _get_bbox_annotations on one storage object.     *)
(*                                                                         *)
(* The store holds an unchanging list of images that match the constraints *)
(* of the FindImage query; image keys (_uniqueid) are the integers 1..N.   *)
(***************************************************************************)
batch == 100

Min(a, b) == IF a <= b THEN a ELSE b

ImageCounts == {0, 1, batch, batch + 1, MaxImages}
Limits == {0, batch \div 2, batch, batch + 1}
Projects == {1, 2}
\* Keys read: one the store does not hold, one of the first page, one of the second.
ProbeKeys == {0, 1, batch + 1}
Statuses == {-1, 0, 1, 2}

\* The store's answer to FindImage with "limit": batch and "offset": off.
FindImage(off) == SubSeq(images, off + 1, Min(off + batch, Len(images)))

\* The loop test that never ends the scan.
LoopTest_always(off) == TRUE

\* The loop test of line 137.
LoopTest(off) == (limit = 0) \/ (off < limit)

\* The page left after its first id.
Exhausted_early(page, n) == n >= 1

\* `yield from ids` of line 152 is through: n ids of the page were yielded.
Exhausted(page, n) == n = Len(page)

\* The offset a page later (line 153).
NextOffset_overlap(off) == off + batch - 1

NextOffset(off) == off + batch

\* The annotation entities of project project_id connected to image key, as
\* the store returns them (LS_data decoded): here one annotation for the
\* project with the parity of the key.
StoreAnnotations(key, project_id) ==
    IF key % 2 = project_id % 2
    THEN <<[result |-> <<key, project_id>>]>>
    ELSE <<>>

\* The answer that holds one image of those asked for.
BatchAnswer_one(keys, project_id) ==
    [k \in {j \in keys \cap Range(images) : \A i \in keys \cap Range(images) : j <= i} |->
        [anns |-> StoreAnnotations(k, project_id), preds |-> <<>>]]

\* What _get_bbox_annotations_batch yields for keys and project_id when the
\* store answers with status 0: one (anns, preds) per image found.
BatchAnswer(keys, project_id) ==
    [k \in keys \cap Range(images) |->
        [anns |-> StoreAnnotations(k, project_id), preds |-> <<>>]]

\* Only the first id of the page recorded.
PageKeys_first(page) == {page[1]}

\* set(ids) of line 150.
PageKeys(page) == Range(page)

\* The cache of the page before kept.
ResetCache_kept(cache) == cache

\* Line 151: a new, empty cache in place of the one before.
ResetCache(cache) == EmptyMap

\* The cache test of line 202 that never finds the key.
InCache_never(key) == FALSE

\* The cache test of line 202.
InCache(key) ==
    /\ "_bbox_annotation_cache" \in attrs
    /\ key \in DOMAIN _bbox_annotation_cache

\* The test of line 207 that finds every key.
InLastIterkeys_any(key) == TRUE

\* The test of line 207.
InLastIterkeys(key) ==
    /\ "_last_iterkeys" \in attrs
    /\ key \in _last_iterkeys

InitScan ==
    /\ images \in {[i \in 1..n |-> i] : n \in ImageCounts}
    /\ limit \in Limits
    /\ InitScanVars
    /\ result = <<>>
    /\ InitMergeVars
    /\ annots = EmptyMap
    /\ store_anns = {}
    /\ store_boxes = {}
    /\ InitSaveVars
    /\ sched = "serial"
    /\ InitConnVars
    /\ storages = 0
    /\ InitDispatchVars

scanFrame == <<images, limit>>
readFrame == <<scan_pc, offset, ids, idx, yielded, offsets>>

\* A call of iterkeys(): a new generator, nothing run yet.
IterkeysCall ==
    /\ scan_pc \in {"idle", "done", "failed"}
    /\ scan_pc' = "start"
    /\ offset' = 0
    /\ ids' = <<>>
    /\ idx' = 0
    /\ yielded' = <<>>
    /\ offsets' = <<>>
    /\ UNCHANGED <<scanFrame, attrs, _last_iterkeys, _bbox_annotation_cache,
                   batchQueries, batchServed, lastRead, mergeVars, saveVars, connVars, dispatchVars>>

\* next() on the generator when the page is used up (or nothing was fetched
\* yet): advance the offset, test the loop condition, query the page and
\* yield its first id; or return; or raise on a status other than 0.
FetchPage(status) ==
    /\ \/ scan_pc = "start"
       \/ scan_pc = "yielding" /\ Exhausted(ids, idx)
    /\ LET off == IF scan_pc = "start" THEN offset ELSE NextOffset(offset) IN
        /\ offset' = off
        /\ IF ~LoopTest(off)
           THEN /\ scan_pc' = "done"
                /\ UNCHANGED <<ids, idx, yielded, offsets, attrs, _last_iterkeys,
                               _bbox_annotation_cache, batchQueries, batchServed>>
           ELSE /\ offsets' = Append(offsets, off)
                /\ IF status # 0
                   THEN /\ scan_pc' = "failed"
                        /\ UNCHANGED <<ids, idx, yielded, attrs, _last_iterkeys,
                                       _bbox_annotation_cache, batchQueries,
                                       batchServed>>
                   ELSE IF Len(FindImage(off)) = 0
                   THEN /\ scan_pc' = "done"
                        /\ UNCHANGED <<ids, idx, yielded, attrs, _last_iterkeys,
                                       _bbox_annotation_cache, batchQueries,
                                       batchServed>>
                   ELSE /\ ids' = FindImage(off)
                        /\ _last_iterkeys' = PageKeys(FindImage(off))
                        /\ _bbox_annotation_cache' = ResetCache(_bbox_annotation_cache)
                        /\ attrs' = attrs \cup {"_last_iterkeys", "_bbox_annotation_cache"}
                        /\ batchQueries' = 0
                        /\ batchServed' = 0
                        /\ scan_pc' = "yielding"
                        /\ idx' = 1
                        /\ yielded' = Append(yielded, FindImage(off)[1])
    /\ UNCHANGED <<scanFrame, lastRead, mergeVars, saveVars, connVars, dispatchVars>>

\* next() on the generator inside `yield from ids`: the next id of the page.
YieldKey ==
    /\ scan_pc = "yielding"
    /\ idx < Len(ids)
    /\ idx' = idx + 1
    /\ yielded' = Append(yielded, ids[idx + 1])
    /\ UNCHANGED <<scanFrame, scan_pc, offset, ids, offsets, attrs, _last_iterkeys,
                   _bbox_annotation_cache, batchQueries, batchServed, lastRead,
                   mergeVars, saveVars, connVars, dispatchVars>>

\* The answers of the store to the query of _get_bbox_annotations_batch
\* (FindImage, FindEntity; predictions are not loaded): regular or faulty.
ReadAnswers ==
    {ListResponse(<<0, 0>>), DictResponse(-1), ListResponse(<<0, -1>>),
     ListResponse(<<-1, 0>>)}

\* The test of line 266 that lets every status pass.
ReadOk_any(status) == TRUE

\* The test of line 266.
ReadOk(status) == status = 0

\* Command i of the response did not run: its result holds a status and a
\* diagnostic, no "returned" and no "entities".
CommandFailed(response, i) == response.kind = "dict" \/ response.statuses[i] # 0

\* How one run of _get_bbox_annotations_batch(keys, project_id) ends on the
\* response: the exception of lines 264-285, if any, and the tuples yielded.
BatchRun(keys, project_id, response) ==
    IF ~ReadOk(_response_status(response))
    THEN [raised |-> "ValueError", yields |-> EmptyMap]
    ELSE IF CommandFailed(response, 1)
    THEN [raised |-> IF response.kind = "dict" THEN "KeyError" ELSE "none",
          yields |-> EmptyMap]
    ELSE IF keys \cap Range(images) = {}
    THEN [raised |-> "none", yields |-> EmptyMap]
    ELSE IF CommandFailed(response, 2)
    THEN [raised |-> "KeyError", yields |-> EmptyMap]
    ELSE [raised |-> "none", yields |-> BatchAnswer(keys, project_id)]

\* _get_bbox_annotations(key, project_id); response is the store's answer to
\* the query the call issues (the regular one stands in when it issues none).
GetAnnotations(key, project_id, response) ==
    /\ IF InCache(key)
       THEN /\ response = ListResponse(<<0, 0>>)     \* no query: nothing to answer
            /\ lastRead' = [path |-> "hit", key |-> key,
                            raised |-> "none",
                            ret |-> <<_bbox_annotation_cache[key]>>]
            /\ UNCHANGED <<attrs, _bbox_annotation_cache, batchQueries, batchServed>>
       ELSE IF InLastIterkeys(key)
       THEN /\ batchQueries < MaxQueries
            /\ batchQueries' = batchQueries + 1
            /\ LET run == BatchRun(_last_iterkeys, project_id, response) IN
               IF run.raised # "none"
               THEN /\ lastRead' = [path |-> "batch", key |-> key,
                                    raised |-> run.raised, ret |-> <<>>]
                    /\ UNCHANGED <<attrs, _bbox_annotation_cache, batchServed>>
               ELSE LET cache == run.yields IN
                    /\ _bbox_annotation_cache' = cache
                    /\ attrs' = attrs \cup {"_bbox_annotation_cache"}
                    /\ batchServed' = batchServed + (IF response = ListResponse(<<0, 0>>)
                                                     THEN 1 ELSE 0)
                    /\ lastRead' = [path |-> "batch", key |-> key,
                                    raised |-> IF key \in DOMAIN cache
                                               THEN "none" ELSE "KeyError",
                                    ret |-> IF key \in DOMAIN cache
                                            THEN <<cache[key]>> ELSE <<>>]
       ELSE LET run == BatchRun({key}, project_id, response) IN
            /\ lastRead' = [path |-> "single", key |-> key,
                            raised |-> IF run.raised # "none" THEN run.raised
                                       ELSE IF key \notin DOMAIN run.yields
                                       THEN "StopIteration" ELSE "none",
                            ret |-> IF run.raised = "none" /\ key \in DOMAIN run.yields
                                    THEN <<run.yields[key]>> ELSE <<>>]
            /\ UNCHANGED <<attrs, _bbox_annotation_cache, batchQueries, batchServed>>
    /\ UNCHANGED <<scanFrame, readFrame, _last_iterkeys, mergeVars, saveVars, connVars, dispatchVars>>

\* The project ids get_data passes (line 294): the id of the project of the
\* storage, the same in every read of one storage object.
OwnProject == {p \in Projects : \A q \in Projects : p <= q}

\* The reads are those of get_data; the store answers a read regularly or
\* refuses the whole query.
NextScan ==
    \/ IterkeysCall
    \/ \E status \in {0, -1} : FetchPage(status)
    \/ YieldKey
    \/ \E key \in ProbeKeys, project_id \in OwnProject :
       \E response \in {ListResponse(<<0, 0>>), DictResponse(-1)} :
          GetAnnotations(key, project_id, response)

SpecScan == InitScan /\ [][NextScan]_vars

\* The scan alone, driven by a consumer that takes keys until the generator
\* is through (the loops over iterkeys() run it to its end): a next() that
\* can be taken is taken.
NextIter ==
    \/ IterkeysCall
    \/ \E status \in {0, -1} : FetchPage(status)
    \/ YieldKey

SpecIter ==
    /\ InitScan
    /\ [][NextIter]_vars
    /\ WF_vars(\E status \in {0, -1} : FetchPage(status))
    /\ WF_vars(YieldKey)

(***************************************************************************)
(* SpecRead: the same storage object on a store of a few images, whose     *)
(* answers to a read may also carry the failure of a single command.       *)
(***************************************************************************)
ReadImageCounts == {0, 1, 3}

InitRead ==
    /\ images \in {[i \in 1..n |-> i] : n \in ReadImageCounts}
    /\ limit \in {0, batch}
    /\ InitScanVars
    /\ result = <<>>
    /\ InitMergeVars
    /\ annots = EmptyMap
    /\ store_anns = {}
    /\ store_boxes = {}
    /\ InitSaveVars
    /\ sched = "serial"
    /\ InitConnVars
    /\ storages = 0
    /\ InitDispatchVars

NextRead ==
    \/ IterkeysCall
    \/ \E status \in {0, -1} : FetchPage(status)
    \/ YieldKey
    \/ \E key \in ProbeKeys, project_id \in Projects, response \in ReadAnswers :
          GetAnnotations(key, project_id, response)

SpecRead == InitRead /\ [][NextRead]_vars

(***************************************************************************)
(* SpecSave: save_annotation and delete_annotation of an export storage,   *)
(* run by jobs one at a time, against the store.                           *)
(*                                                                         *)
(* The store holds LS_annotation entities and bounding boxes.  A box has   *)
(* its _uniqueid, the properties the code writes, the image it belongs to  *)
(* and `region_of`, the annotation it is connected to by an                *)
(* LS_annotation_region edge (None when there is no such edge).  LS_data   *)
(* and the other properties of line 485-491 come from outside this file    *)
(* and are not part of the state.                                          *)
(***************************************************************************)
None == "None"

\* The _uniqueid values the store gives to new boxes: any id not in use will
\* do; the store of the model takes them from one list per image and LS_id.
UidPool ==
    [img1 |-> [r1 |-> <<"1.1.1", "1.1.2", "1.1.3", "1.1.4">>,
               r2 |-> <<"1.2.1", "1.2.2", "1.2.3", "1.2.4">>],
     img2 |-> [r1 |-> <<"2.1.1", "2.1.2", "2.1.3", "2.1.4">>,
               r2 |-> <<"2.2.1", "2.2.2", "2.2.3", "2.2.4">>]]

FreeUids(boxes, img_id, id_) ==
    {i \in 1..MaxDup : \A b \in boxes : b["_uniqueid"] # UidPool[img_id][id_][i]}

\* The _uniqueid the store gives to the next box of id_ on img_id.
FreshUid(boxes, img_id, id_) ==
    UidPool[img_id][id_][CHOOSE i \in FreeUids(boxes, img_id, id_) :
                            \A j \in FreeUids(boxes, img_id, id_) : i <= j]

\* Only status 0 accepted.
Accepted_only0(status) == status = 0

\* The test of lines 539 and 564.
Accepted(status) == status \in {0, 2}

\* The Annotation objects of the task system.
SampleAnnotations ==
    [a1 |-> [image |-> "img1", project |-> 1,
             result |-> <<Frag(BaseRect), Frag(BaseText)>>],
     a2 |-> [image |-> "img2", project |-> 2,
             result |-> <<Frag([BaseRect EXCEPT !.shape = 3])>>],
     a3 |-> [image |-> "img1", project |-> 1,
             result |-> <<Frag([BaseRect EXCEPT !.id = "r2",
                                               !.text = [has |-> FALSE, list |-> <<>>]])>>],
     a4 |-> [image |-> "img1", project |-> 1,
             result |-> <<Frag(BaseRect), Frag([BaseRect EXCEPT !.id = "r2", !.rot = "value"])>>],
     a5 |-> [image |-> "img1", project |-> 1,
             result |-> <<Frag(BaseRect), Frag([BaseRect EXCEPT !.id = "r2", !.shape = 3])>>]]

\* A box of the store that no annotation of the task system created
\* (LS_id unset), whose _uniqueid is used as a region identifier.
PredictionBox ==
    [_uniqueid |-> "r2", LS_id |-> None, image |-> "img1",
     rectangle |-> [x |-> 0, y |-> 0, width |-> 10, height |-> 10],
     label |-> "dog", LS_text |-> <<>>, LS_annotation |-> None, LS_label |-> <<>>,
     region_of |-> None]

\* The starting points: the annotations of the task system with the boxes
\* the store already holds.
Worlds ==
    {[annots |-> [a \in {"a1", "a2", "a4"} |-> SampleAnnotations[a]], boxes |-> {}],
     [annots |-> [a \in {"a3"} |-> SampleAnnotations[a]], boxes |-> {}],
     [annots |-> [a \in {"a3"} |-> SampleAnnotations[a]], boxes |-> {PredictionBox}],
     [annots |-> [a \in {"a5"} |-> SampleAnnotations[a]], boxes |-> {PredictionBox}]}

Store == <<store_anns, store_boxes>>

\* The entities of a set, one after the other.
RECURSIVE Listed(_)
Listed(S) ==
    IF S = {} THEN <<>>
    ELSE LET e == CHOOSE x \in S : TRUE IN <<e>> \o Listed(S \ {e})

\* The orders in which the store returns a set of entities.  The loop of
\* lines 445-451 keeps, for an identifier, the field of the last entity that
\* carries it, so the orders are told apart by the entity that ends them:
\* one order for each entity that can come last.
Orderings(S) ==
    IF S = {} THEN {<<>>} ELSE {Append(Listed(S \ {e}), e) : e \in S}

\* Lines 445-451: which identity field addresses each merged identifier.
RECURSIVE ScanEntities(_, _, _, _)
ScanEntities(entities, k, map, fields) ==
    IF k > Len(entities) THEN fields
    ELSE LET bbx == entities[k] IN
         IF bbx["LS_id"] \in DOMAIN map
         THEN ScanEntities(entities, k + 1, map, With(fields, bbx["LS_id"], "LS_id"))
         ELSE IF bbx["_uniqueid"] \in DOMAIN map
         THEN ScanEntities(entities, k + 1, map, With(fields, bbx["_uniqueid"], "_uniqueid"))
         ELSE ScanEntities(entities, k + 1, map, fields)

\* The properties lines 503-511 and 521-528 write into a box.
BoxProperties(bbox, ann_id) ==
    [rectangle |-> bbox.rect,
     label |-> IF Len(bbox.labels) > 0 THEN bbox.labels[1] ELSE "",
     LS_text |-> bbox.text,
     LS_annotation |-> ann_id,
     LS_label |-> bbox.labels]

\* UpdateBoundingBox with "constraints": {id_field: ["==", id_]}.
UpdateBoundingBox(boxes, id_field, id_, props) ==
    {IF b[id_field] = id_
     THEN [b EXCEPT !.rectangle = props.rectangle, !.label = props.label,
                    !.LS_text = props.LS_text, !.LS_annotation = props.LS_annotation,
                    !.LS_label = props.LS_label]
     ELSE b : b \in boxes}

\* AddBoundingBox on the image with AddConnection from the annotation entity.
AddBoundingBox(boxes, img_id, id_, props, ann_id) ==
    boxes \cup {[_uniqueid |-> FreshUid(boxes, img_id, id_), LS_id |-> id_, image |-> img_id,
                 rectangle |-> props.rectangle, label |-> props.label,
                 LS_text |-> props.LS_text, LS_annotation |-> props.LS_annotation,
                 LS_label |-> props.LS_label, region_of |-> ann_id]}

\* The test of line 499 that never finds the identifier.
IsMatched_never(job, id_) == FALSE

\* The test of line 499.
IsMatched(job, id_) == id_ \in DOMAIN job.bbox_id_fields

\* The commands lines 497-535 append to the mutation query for the boxes of
\* bbox_map, in its iteration order, from index k on; ref counts from 3.
RECURSIVE BoxCommands(_, _)
BoxCommands(job, k) ==
    IF k > Len(job.order) THEN <<>>
    ELSE LET id_ == job.order[k]
             props == BoxProperties(job.bbox_map[id_], job.ann)
             ref == 3 + (k - 1)
         IN  (IF IsMatched(job, id_)
              THEN << [cmd |-> "UpdateBoundingBox", id_field |-> job.bbox_id_fields[id_],
                       id |-> id_, props |-> props] >>
              ELSE << [cmd |-> "AddBoundingBox", image_ref |-> 1, ref |-> ref,
                       id |-> id_, props |-> props],
                      [cmd |-> "AddConnection", class |-> "LS_annotation_region",
                       src |-> 2, dst |-> ref] >>)
             \o BoxCommands(job, k + 1)

\* Lines 497-535 as the store executes them: the boxes after the commands of
\* bbox_map, in its iteration order, from index k on.
RECURSIVE ApplyBoxes(_, _, _, _)
ApplyBoxes(boxes, job, img_id, k) ==
    IF k > Len(job.order) THEN boxes
    ELSE LET id_ == job.order[k]
             props == BoxProperties(job.bbox_map[id_], job.ann)
         IN  IF IsMatched(job, id_)
             THEN ApplyBoxes(UpdateBoundingBox(boxes, job.bbox_id_fields[id_], id_, props),
                             job, img_id, k + 1)
             ELSE ApplyBoxes(AddBoundingBox(boxes, img_id, id_, props, job.ann),
                             job, img_id, k + 1)

\* The statuses of the commands of lines 497-535.
RECURSIVE BoxStatuses(_, _)
BoxStatuses(job, k) ==
    IF k > Len(job.order) THEN <<>>
    ELSE (IF IsMatched(job, job.order[k]) THEN <<0>> ELSE <<0, 0>>)
         \o BoxStatuses(job, k + 1)

NewBoxes(job) == {id_ \in Range(job.order) : ~IsMatched(job, id_)}

\* AddEntity with if_not_found on LS_id, then UpdateEntity on it.
UpsertAnnotation(anns, ann_id, img_id, project_id) ==
    IF \E e \in anns : e.LS_id = ann_id
    THEN {IF e.LS_id = ann_id THEN [e EXCEPT !.LS_project_id = project_id] ELSE e : e \in anns}
    ELSE anns \cup {[LS_id |-> ann_id, image |-> img_id, LS_project_id |-> project_id]}

InitSave ==
    /\ \E world \in Worlds :
          /\ annots = world.annots
          /\ store_boxes = world.boxes
    /\ store_anns = {}
    /\ InitSaveVars
    /\ sched = "serial"
    /\ result = <<>>
    /\ InitMergeVars
    /\ images = <<>>
    /\ limit = 0
    /\ InitScanVars
    /\ InitConnVars
    /\ storages = 0
    /\ InitDispatchVars

\* The previous operation was the same one on the same annotation, finished
\* without error on regular answers of the store.
Repeats(op, a) ==
    /\ lastOp.op = op
    /\ lastOp.ann = a
    /\ lastOp.raised = "none"
    /\ ~lastOp.fault

\* The answer of FindBoundingBox with image_ref that finds no box.
FindBoundingBox_none(boxes, img_id) == {}

\* The boxes the FindBoundingBox command of lines 431-437 finds: those
\* connected to the image.
FindBoundingBox(boxes, img_id) == {b \in boxes : b.image = img_id}

\* The two identity fields of the entities of a reconnaissance answer.
Seen(entities) ==
    {[LS_id |-> entities[k]["LS_id"], _uniqueid |-> entities[k]["_uniqueid"]] :
        k \in DOMAIN entities}

\* The test of line 441 that lets every status pass.
ScanOk_any(status) == TRUE

\* The test of line 441.
ScanOk(status) == status = 0

\* A job may start: always when jobs interleave, otherwise when none is running.
MayStart(w) ==
    /\ wpc[w] = "idle"
    /\ sched = "serial" => \A v \in Writers : wpc[v] = "idle"

\* save_annotation up to its first query (lines 395-451): merge the regions,
\* scan the boxes of the image, choose the identity fields.
SaveScan(w, a, response, entities) ==
    /\ MayStart(w)
    /\ LET m == MergeRegions(annots[a].result)
           op == [NoOp EXCEPT !.op = "save", !.ann = a, !.stage = "merge",
                              !.repeat = Repeats("save", a),
                              !.found = \E e \in store_anns : e.LS_id = a]
       IN
        /\ \A k \in DOMAIN m.result : Len(ListOf(m.result[k], "text")) <= MaxText
        /\ annots' = [annots EXCEPT ![a].result = m.result]
        /\ IF m.err # NoError
           THEN /\ lastOp' = [op EXCEPT !.raised = m.err.raised]
                /\ UNCHANGED <<wpc, wjob>>
           ELSE IF ~ScanOk(_response_status(response))
           THEN /\ lastOp' = [op EXCEPT !.stage = "scan", !.raised = "ValueError",
                                        !.queries = 1, !.statuses = response.statuses,
                                        !.fault = TRUE,
                                        !.scan_status = _response_status(response)]
                /\ UNCHANGED <<wpc, wjob>>
           ELSE /\ wpc' = [wpc EXCEPT ![w] = "scanned"]
                /\ wjob' = [wjob EXCEPT ![w] =
                              [ann |-> a, bbox_map |-> m.bbox_map, order |-> m.order,
                               bbox_id_fields |->
                                   IF response = ListResponse(<<0, 0>>)
                                   THEN ScanEntities(entities, 1, m.bbox_map, EmptyMap)
                                   ELSE EmptyMap,
                               repeat |-> Repeats("save", a),
                               fault |-> response # ListResponse(<<0, 0>>),
                               scan_status |-> _response_status(response),
                               seen |-> IF response = ListResponse(<<0, 0>>)
                                        THEN Seen(entities) ELSE {}]]
                /\ UNCHANGED lastOp
    /\ UNCHANGED <<store_anns, store_boxes, sched, mergeVars, scanVars, connVars, dispatchVars>>

\* save_annotation from its second query on (lines 457-541).
SaveMutate(w, fault) ==
    /\ wpc[w] = "scanned"
    /\ LET job == wjob[w]
           a == job.ann
           img_id == annots[a].image
           found == \E e \in store_anns : e.LS_id = a
           statuses == <<0, IF found THEN 2 ELSE 0, 0>> \o BoxStatuses(job, 1)
       IN
        /\ \A id_ \in NewBoxes(job) : FreeUids(store_boxes, img_id, id_) # {}
        /\ \E response \in IF fault THEN Faults(statuses) ELSE {ListResponse(statuses)} :
            /\ IF fault
               THEN UNCHANGED <<store_anns, store_boxes>>
               ELSE /\ store_anns' = UpsertAnnotation(store_anns, a, img_id, annots[a].project)
                    /\ store_boxes' = ApplyBoxes(store_boxes, job, img_id, 1)
            /\ lastOp' = [op |-> "save", ann |-> a, stage |-> "mutation",
                          raised |-> IF Accepted(_response_status(response))
                                     THEN "none" ELSE "ValueError",
                          queries |-> 2, statuses |-> response.statuses,
                          fault |-> fault \/ job.fault, repeat |-> job.repeat,
                          inserted |-> IF fault THEN 0
                                       ELSE Cardinality(NewBoxes(job))
                                            + (IF found THEN 0 ELSE 1),
                          found |-> found,
                          changed |-> Store' # Store,
                          scan_status |-> job.scan_status,
                          seen |-> job.seen,
                          commands |-> BoxCommands(job, 1),
                          order |-> job.order,
                          applied |-> ~fault]
    /\ wpc' = [wpc EXCEPT ![w] = "idle"]
    /\ wjob' = [wjob EXCEPT ![w] = NoJob]
    /\ UNCHANGED <<annots, sched, mergeVars, scanVars, connVars, dispatchVars>>

\* The statuses of the four commands of delete_annotation on a store that
\* holds the annotation entity, and on one that does not.
DeleteStatuses(found) ==
    IF found THEN {<<0, 0, 0, 0>>} ELSE {<<0, 0, 0, 0>>, <<2, 0, 0, 0>>}

\* delete_annotation (lines 543-566): one query of four commands.
DeleteAnnotation(w, a, fault) ==
    /\ MayStart(w)
    /\ LET found == \E e \in store_anns : e.LS_id = a IN
       \E statuses \in DeleteStatuses(found) :
       \E response \in IF fault THEN Faults(statuses) ELSE {ListResponse(statuses)} :
        /\ IF fault
           THEN UNCHANGED <<store_anns, store_boxes>>
           ELSE /\ store_boxes' = {b \in store_boxes : b.region_of # a}
                /\ store_anns' = {e \in store_anns : e.LS_id # a}
        /\ lastOp' = [NoOp EXCEPT
                      !.op = "delete", !.ann = a, !.stage = "query",
                      !.raised = IF Accepted(_response_status(response))
                                 THEN "none" ELSE "ValueError",
                      !.queries = 1, !.statuses = response.statuses,
                      !.fault = fault, !.repeat = Repeats("delete", a),
                      !.found = found, !.changed = Store' # Store,
                      !.applied = ~fault]
    /\ UNCHANGED <<annots, wpc, wjob, sched, mergeVars, scanVars, connVars, dispatchVars>>

ScanAnswers == {ListResponse(<<0, 0>>)} \cup Faults(<<0, 0>>)

NextSave ==
    \/ \E w \in Writers, a \in DOMAIN annots, response \in ScanAnswers :
          \E entities \in Orderings(FindBoundingBox(store_boxes, annots[a].image)) :
              SaveScan(w, a, response, entities)
    \/ \E w \in Writers, fault \in BOOLEAN : SaveMutate(w, fault)
    \/ \E w \in Writers, a \in DOMAIN annots, fault \in BOOLEAN :
          DeleteAnnotation(w, a, fault)

SpecSave == InitSave /\ [][NextSave]_vars

(***************************************************************************)
(* SpecRace: the same jobs against a store that answers every query        *)
(* regularly, run one after another or interleaved between the two         *)
(* queries of save_annotation.                                             *)
(***************************************************************************)
RaceWorlds ==
    {[annots |-> [a \in {"a2", "a3"} |-> SampleAnnotations[a]], boxes |-> {}],
     [annots |-> [a \in {"a3"} |-> SampleAnnotations[a]], boxes |-> {PredictionBox}]}

InitRace ==
    /\ \E world \in RaceWorlds :
          /\ annots = world.annots
          /\ store_boxes = world.boxes
    /\ store_anns = {}
    /\ InitSaveVars
    /\ sched \in {"serial", "concurrent"}
    /\ result = <<>>
    /\ InitMergeVars
    /\ images = <<>>
    /\ limit = 0
    /\ InitScanVars
    /\ InitConnVars
    /\ storages = 0
    /\ InitDispatchVars

NextRace ==
    \/ \E w \in Writers, a \in DOMAIN annots :
          \E entities \in Orderings(FindBoundingBox(store_boxes, annots[a].image)) :
              SaveScan(w, a, ListResponse(<<0, 0>>), entities)
    \/ \E w \in Writers : SaveMutate(w, FALSE)
    \/ \E w \in Writers, a \in DOMAIN annots : DeleteAnnotation(w, a, FALSE)

SpecRace == InitRace /\ [][NextRace]_vars

(***************************************************************************)
(* SpecConn: get_connection (lines 64-76) called by several threads on one *)
(* storage object.  A thread runs one line at a time; threads interleave   *)
(* between lines.  Connector.Connector(...) either returns a new connector *)
(* or raises.                                                              *)
(***************************************************************************)
InitConn ==
    /\ InitConnVars
    /\ result = <<>>
    /\ InitMergeVars
    /\ images = <<>>
    /\ limit = 0
    /\ InitScanVars
    /\ annots = EmptyMap
    /\ store_anns = {}
    /\ store_boxes = {}
    /\ InitSaveVars
    /\ sched = "serial"
    /\ storages = 0
    /\ InitDispatchVars

connFrame == <<mergeVars, scanVars, saveVars, dispatchVars>>

\* The test of line 65.
FirstCheck(db) == db = NoConnection

\* The test under the lock left out.
SecondCheck_skipped(db) == TRUE

\* The test of line 67.
SecondCheck(db) == db = NoConnection

\* A thread calls get_connection.
GetConnectionCall(t) ==
    /\ tpc[t] = "idle"
    /\ tcall[t].n < MaxGetCalls
    /\ tpc' = [tpc EXCEPT ![t] = "line65"]
    /\ tcall' = [tcall EXCEPT ![t] = [NoCall EXCEPT !.n = tcall[t].n + 1]]
    /\ UNCHANGED <<_db, _db_lock, connectors, returns, connFrame>>

\* if self._db is None
Line65(t) ==
    /\ tpc[t] = "line65"
    /\ IF FirstCheck(_db)
       THEN /\ tpc' = [tpc EXCEPT ![t] = "line66"]
            /\ tcall' = [tcall EXCEPT ![t].path = "locked"]
       ELSE /\ tpc' = [tpc EXCEPT ![t] = "line76"]
            /\ tcall' = [tcall EXCEPT ![t].path = "lockfree"]
    /\ UNCHANGED <<_db, _db_lock, connectors, returns, connFrame>>

\* with self._db_lock: wait for the lock and take it.
Line66(t) ==
    /\ tpc[t] = "line66"
    /\ _db_lock = NoThread
    /\ _db_lock' = t
    /\ tpc' = [tpc EXCEPT ![t] = "line67"]
    /\ UNCHANGED <<_db, tcall, connectors, returns, connFrame>>

\* if self._db is None, under the lock.
Line67(t) ==
    /\ tpc[t] = "line67"
    /\ tpc' = [tpc EXCEPT ![t] = IF SecondCheck(_db) THEN "line68" ELSE "exit"]
    /\ UNCHANGED <<_db, _db_lock, tcall, connectors, returns, connFrame>>

\* self._db = Connector.Connector(...): a new connector is stored, or the
\* constructor raises, the with block releases the lock and the call ends.
Line68(t, ok) ==
    /\ tpc[t] = "line68"
    /\ IF ok
       THEN /\ connectors' = connectors + 1
            /\ _db' = connectors + 1
            /\ tpc' = [tpc EXCEPT ![t] = "exit"]
            /\ UNCHANGED <<_db_lock, tcall>>
       ELSE /\ _db_lock' = NoThread
            /\ tpc' = [tpc EXCEPT ![t] = "idle"]
            /\ tcall' = [tcall EXCEPT ![t].raised = TRUE]
            /\ UNCHANGED <<_db, connectors>>
    /\ UNCHANGED <<returns, connFrame>>

\* The end of the with block: the lock is released.
WithExit(t) ==
    /\ tpc[t] = "exit"
    /\ _db_lock' = NoThread
    /\ tpc' = [tpc EXCEPT ![t] = "line76"]
    /\ UNCHANGED <<_db, tcall, connectors, returns, connFrame>>

\* return self._db
Line76(t) ==
    /\ tpc[t] = "line76"
    /\ tcall' = [tcall EXCEPT ![t].ret = _db]
    /\ returns' = returns \cup {_db}
    /\ tpc' = [tpc EXCEPT ![t] = "idle"]
    /\ UNCHANGED <<_db, _db_lock, connectors, connFrame>>

NextConn ==
    \/ \E t \in Threads : GetConnectionCall(t)
    \/ \E t \in Threads : Line65(t)
    \/ \E t \in Threads : Line66(t)
    \/ \E t \in Threads : Line67(t)
    \/ \E t \in Threads, ok \in BOOLEAN : Line68(t, ok)
    \/ \E t \in Threads : WithExit(t)
    \/ \E t \in Threads : Line76(t)

SpecConn == InitConn /\ [][NextConn]_vars

(***************************************************************************)
(* SpecDispatch: the signal receivers of lines 586-593 with                *)
(* enqueue_aperturedb_annotation_operation and the job it starts.  The     *)
(* project gains and loses export storages while signals arrive; a job     *)
(* runs at once or later (start_job_async_or_sync).                        *)
(***************************************************************************)
Operations == {"save_annotation", "delete_annotation"}

InitDispatch ==
    /\ storages \in 0..MaxStorages
    /\ InitDispatchVars
    /\ result = <<>>
    /\ InitMergeVars
    /\ images = <<>>
    /\ limit = 0
    /\ InitScanVars
    /\ annots = EmptyMap
    /\ store_anns = {}
    /\ store_boxes = {}
    /\ InitSaveVars
    /\ sched = "serial"
    /\ InitConnVars

dispatchFrame == <<mergeVars, scanVars, saveVars, connVars>>

\* The test that schedules a job whatever the project holds.
Exists_always(n) == TRUE

\* storages and storages.exists() of line 581: the related manager is an
\* object (true), exists() asks for at least one row.
Exists(n) == n > 0

\* post_save / pre_delete of an annotation (lines 578-593).
Enqueue(operation) ==
    /\ events < MaxEvents
    /\ events' = events + 1
    /\ IF Exists(storages)
       THEN jobs' = Append(jobs, operation)
       ELSE jobs' = jobs
    /\ lastEvent' = [operation |-> operation, exists |-> storages > 0,
                     scheduled |-> jobs' # jobs]
    /\ UNCHANGED <<storages, opCalls, dispatchFrame>>

\* async_aperturedb_annotation_operation (lines 569-575): the operation on
\* every export storage the project has when the job runs.
RunJob ==
    /\ jobs # <<>>
    /\ jobs' = Tail(jobs)
    /\ opCalls' = opCalls + storages
    /\ UNCHANGED <<storages, events, lastEvent, dispatchFrame>>

\* An export storage is added to the project, or removed from it.
AddStorage ==
    /\ storages < MaxStorages
    /\ storages' = storages + 1
    /\ UNCHANGED <<jobs, events, lastEvent, opCalls, dispatchFrame>>

RemoveStorage ==
    /\ storages > 0
    /\ storages' = storages - 1
    /\ UNCHANGED <<jobs, events, lastEvent, opCalls, dispatchFrame>>

NextDispatch ==
    \/ \E operation \in Operations : Enqueue(operation)
    \/ RunJob
    \/ AddStorage
    \/ RemoveStorage

SpecDispatch == InitDispatch /\ [][NextDispatch]_vars

(***************************************************************************)
(* Vocabulary of the claims about the merge, over the input result0 of     *)
(* the latest call.                                                        *)
(***************************************************************************)
Merged == calls > 0

IsTyped(f) == "type" \in DOMAIN f

IsRectangleFragment(f) == IsTyped(f) /\ startswith(f["type"], RECTANGLE)

\* The fragment carries every key the rectangle computation reads.
HasGeometry(f) ==
    /\ {"original_width", "original_height", "value"} \subseteq DOMAIN f
    /\ {"x", "y", "width", "height"} \subseteq DOMAIN f["value"]

FragRect(f) == PixelRect(f["value"], f["original_width"], f["original_height"])

\* Fragment k takes part in a box: it has a type and a rectangle fragment of
\* its identifier stands at or before it.
Contributes(res, k) ==
    /\ IsTyped(res[k])
    /\ \E j \in 1..k : IsRectangleFragment(res[j]) /\ res[j]["id"] = res[k]["id"]

Disagree(f, g) ==
    \/ f["original_width"] # g["original_width"]
    \/ f["original_height"] # g["original_height"]
    \/ \E c \in {"x", "y", "width", "height"} : FragRect(f)[c] # FragRect(g)[c]

\* C7: whenever two fragments that are merged into the same box (same
\* identifier, both taking part) differ in original_width, original_height or
\* a field of the pixel rectangle, the merge raises ValueError and yields no box.
C7_MismatchRaises ==
    Merged =>
        \A j, k \in DOMAIN result0 :
            ( /\ j < k
              /\ result0[j]["id"] = result0[k]["id"]
              /\ Contributes(result0, j) /\ Contributes(result0, k)
              /\ HasGeometry(result0[j]) /\ HasGeometry(result0[k])
              /\ Disagree(result0[j], result0[k]) )
            => (raised.raised = "ValueError" /\ bbox_map = EmptyMap)

\* A merge that stopped on a mismatch of the rectangle or of a dimension.
C7_Witness ==
    /\ Merged
    /\ raised.msg \in {"original_width", "original_height", "x", "y", "width", "height"}
    /\ \E j, k \in DOMAIN result0 :
          j < k /\ HasGeometry(result0[j]) /\ HasGeometry(result0[k])
                /\ Disagree(result0[j], result0[k])

Rotated(f) ==
    \/ "image_rotation" \in DOMAIN f /\ f["image_rotation"] # 0
    \/ /\ "value" \in DOMAIN f
       /\ "rotation" \in DOMAIN f["value"]
       /\ f["value"]["rotation"] # 0

\* C8: a rectangle-type fragment with image_rotation # 0 or value.rotation # 0
\* anywhere in the result makes the merge raise ValueError.
C8_RotationRaises ==
    Merged =>
        ( (\E k \in DOMAIN result0 : IsRectangleFragment(result0[k]) /\ Rotated(result0[k]))
          => (raised.raised = "ValueError" /\ bbox_map = EmptyMap) )

\* A rotated rectangle fragment standing second, after a valid one.
C8_Witness ==
    /\ Merged
    /\ Len(result0) >= 2
    /\ IsRectangleFragment(result0[2]) /\ Rotated(result0[2])
    /\ IsRectangleFragment(result0[1]) /\ ~Rotated(result0[1])
    /\ raised.msg \in {"rotation", "image_rotation"}

\* Every fragment is a well-formed, unrotated rectangle fragment with at most
\* one label.
AllValidRectangles(res) ==
    \A k \in DOMAIN res :
        /\ IsRectangleFragment(res[k])
        /\ HasGeometry(res[k])
        /\ {"image_rotation"} \subseteq DOMAIN res[k]
        /\ "rotation" \in DOMAIN res[k]["value"]
        /\ ~Rotated(res[k])
        /\ Len(ListOf(res[k], "rectanglelabels")) <= 1

SameIdAgree(res) ==
    \A j, k \in DOMAIN res :
        res[j]["id"] = res[k]["id"] => ~Disagree(res[j], res[k])

RECURSIVE ConcatOf(_, _, _, _)
ConcatOf(res, id, key, k) ==
    IF k > Len(res) THEN <<>>
    ELSE (IF res[k]["id"] = id THEN ListOf(res[k], key) ELSE <<>>)
         \o ConcatOf(res, id, key, k + 1)

IdsOf(res) == {res[k]["id"] : k \in DOMAIN res}

OneBoxPerIdWithConcatText ==
    /\ raised = NoError
    /\ DOMAIN bbox_map = IdsOf(result0)
    /\ \A id \in IdsOf(result0) : bbox_map[id].text = ConcatOf(result0, id, "text", 1)

\* C9 as stated: rectangle fragments that share identifier, dimensions and
\* pixel rectangle yield one box per identifier with the concatenated text.
C9_Original ==
    (Merged /\ AllValidRectangles(result0) /\ SameIdAgree(result0))
        => OneBoxPerIdWithConcatText

\* C9 amended: the same, provided the fragments of one identifier carry at
\* most one label together.
C9_ConcatText ==
    ( /\ Merged /\ AllValidRectangles(result0) /\ SameIdAgree(result0)
      /\ \A id \in IdsOf(result0) : Len(ConcatOf(result0, id, "rectanglelabels", 1)) <= 1 )
        => OneBoxPerIdWithConcatText

\* Two fragments of one identifier with different texts merged into one box.
C9_Witness ==
    /\ Merged /\ AllValidRectangles(result0) /\ SameIdAgree(result0)
    /\ Len(result0) = 2
    /\ result0[1]["id"] = result0[2]["id"]
    /\ ListOf(result0[1], "text") = <<"a">>
    /\ ListOf(result0[2], "text") = <<"b">>
    /\ raised = NoError
    /\ bbox_map[result0[1]["id"]].text = <<"a", "b">>

\* r is the quotient n / d cut toward zero.
IsTruncated(r, n, d) ==
    /\ n >= 0 => (r * d <= n /\ n < (r + 1) * d)
    /\ n < 0  => ((r - 1) * d < n /\ n <= r * d)

\* The fragment that created the box of identifier id.
FirstRectangle(res, id) ==
    CHOOSE k \in DOMAIN res :
        /\ IsRectangleFragment(res[k]) /\ res[k]["id"] = id
        /\ \A j \in 1..(k - 1) : ~(IsRectangleFragment(res[j]) /\ res[j]["id"] = id)

\* C10: each field of a box's pixel rectangle is value * dimension / 100 cut
\* toward zero, and 10%, 10%, 50%, 20% of 800 x 600 is (80, 60, 400, 120).
C10_PixelRect ==
    (Merged /\ raised = NoError) =>
        \A id \in DOMAIN bbox_map :
            LET f == result0[FirstRectangle(result0, id)]
                v == f["value"]
                r == bbox_map[id].rect
            IN  /\ IsTruncated(r.x, v["x"] * f["original_width"], 100 * PctScale)
                /\ IsTruncated(r.y, v["y"] * f["original_height"], 100 * PctScale)
                /\ IsTruncated(r.width, v["width"] * f["original_width"], 100 * PctScale)
                /\ IsTruncated(r.height, v["height"] * f["original_height"], 100 * PctScale)
                /\ ( /\ f["original_width"] = 800 /\ f["original_height"] = 600
                     /\ v["x"] = 10 * PctScale /\ v["y"] = 10 * PctScale
                     /\ v["width"] = 50 * PctScale /\ v["height"] = 20 * PctScale )
                   => r = [x |-> 80, y |-> 60, width |-> 400, height |-> 120]

\* The 800 x 600 example, and a box whose x percentage is negative.
C10_Witness ==
    /\ Merged /\ raised = NoError
    /\ \E id \in DOMAIN bbox_map :
          /\ bbox_map[id].rect = [x |-> 80, y |-> 60, width |-> 400, height |-> 120]
          /\ result0[FirstRectangle(result0, id)]["value"]["x"] = 10 * PctScale
          /\ result0[FirstRectangle(result0, id)]["original_width"] = 800

\* The fragment has a type and it is not one of the rectangle types.
OtherType(f) == IsTyped(f) /\ f["type"] \notin {RECTANGLE, RECTANGLELABELS}

\* Fragment k is of another type and no rectangle fragment of its identifier
\* stands before it.
Stray(res, k) ==
    /\ OtherType(res[k])
    /\ ~\E j \in 1..(k - 1) :
           /\ IsTyped(res[j])
           /\ ~OtherType(res[j])
           /\ res[j]["id"] = res[k]["id"]

\* The sequence without the fragments at the indices of `drop`.
RECURSIVE Removed(_, _, _)
Removed(res, drop, k) ==
    IF k > Len(res) THEN <<>>
    ELSE (IF k \in drop THEN <<>> ELSE <<res[k]>>) \o Removed(res, drop, k + 1)

\* The boxes of a mapping: dimensions, pixel rectangle, labels and text.
Boxes(map) ==
    [id \in DOMAIN map |->
        [original_width |-> map[id].original_width,
         original_height |-> map[id].original_height,
         rect |-> map[id].rect, labels |-> map[id].labels, text |-> map[id].text]]

\* The latest merge ended as the merge of the sequence without `drop` ends.
SameOutcomeWithout(drop) ==
    LET m == MergeRegions(Removed(result0, drop, 1)) IN
    /\ (raised = NoError) <=> (m.err = NoError)
    /\ Boxes(bbox_map) = Boxes(m.bbox_map)

\* C24 as stated: the merge of a sequence ends as the merge of the sequence
\* without its fragments of other types than rectangle: same mapping from
\* identifiers to boxes, an error in both or in neither.
C24_Original ==
    Merged => SameOutcomeWithout({k \in DOMAIN result0 : OtherType(result0[k])})

\* C24 amended: the same for the fragments of other types that no rectangle
\* fragment of their identifier precedes; a fragment of another type that
\* follows a rectangle fragment of its identifier is merged into that box.
C24_StrayFragmentsIgnored ==
    Merged => SameOutcomeWithout({k \in DOMAIN result0 : Stray(result0, k)})

\* A merge that made a box out of a sequence holding a fragment of another
\* type with no rectangle fragment of its identifier before it.
C24_Witness ==
    /\ Merged
    /\ raised = NoError
    /\ DOMAIN bbox_map # {}
    /\ \E k \in DOMAIN result0 : Stray(result0, k)

\* The labels of the fragments of identifier id that take part in a box, in
\* the order of the sequence, from index k on.
RECURSIVE LabelsOf(_, _, _)
LabelsOf(res, id, k) ==
    IF k > Len(res) THEN <<>>
    ELSE (IF res[k]["id"] = id /\ Contributes(res, k)
          THEN ListOf(res[k], "rectanglelabels") ELSE <<>>)
         \o LabelsOf(res, id, k + 1)

\* C25: a box of the mapping carries at most one label; when the fragments
\* that take part in the box of one identifier carry more than one label, in
\* one fragment or together, the merge raises ValueError and yields no box.
C25_AtMostOneLabel ==
    Merged =>
        /\ \A id \in DOMAIN bbox_map : Len(bbox_map[id].labels) <= 1
        /\ \A id \in IdsOf(result0) :
              Len(LabelsOf(result0, id, 1)) > 1
              => (raised.raised = "ValueError" /\ bbox_map = EmptyMap)

\* A merge that stopped on the labels of two fragments of one identifier,
\* each with a single label.
C25_Witness ==
    /\ Merged
    /\ raised = ValueError("labels")
    /\ Len(result0) = 2
    /\ result0[1]["id"] = result0[2]["id"]
    /\ \A k \in DOMAIN result0 : Len(ListOf(result0[k], "rectanglelabels")) = 1

\* C28: the merge leaves the label list and the text list of every fragment
\* of annotation.result as they were, and a further merge of the same
\* annotation object yields the boxes of this one.
C28_InputUnchanged ==
    Merged =>
        /\ \A k \in DOMAIN result0 :
              /\ ListOf(result[k], "rectanglelabels") = ListOf(result0[k], "rectanglelabels")
              /\ ListOf(result[k], "text") = ListOf(result0[k], "text")
        /\ LET again == MergeRegions(result) IN
              /\ again.err = raised
              /\ Boxes(again.bbox_map) = Boxes(bbox_map)

(***************************************************************************)
(* Claims about the scan and the annotation cache.                         *)
(***************************************************************************)

\* C2: with a limit set, one iterkeys call yields at most `limit` keys.
C2_AtMostLimit == limit # 0 => Len(yielded) <= limit

\* C3: one iterkeys call never yields a key twice.
C3_NoRepeatedKey == Cardinality(Range(yielded)) = Len(yielded)

\* A finished scan that went through three pages with keys.
C3_Witness ==
    /\ scan_pc = "done"
    /\ Len(offsets) >= 3
    /\ Len(yielded) > 2 * batch

StoreTuple(key, project_id) == [anns |-> StoreAnnotations(key, project_id), preds |-> <<>>]

\* C13: a batched read (key in the current batch, not cached) that the store
\* answers with a status other than 0 for any command raises an error and
\* returns nothing (ValueError when the status of the response is not 0),
\* and leaves cache and batch as they were, with no key of the batch cached,
\* so that the next read of a key of the batch queries again.
C13_BatchFailureKeepsCache ==
    [][ \A key \in ProbeKeys, project_id \in Projects, response \in ReadAnswers :
          ( /\ key \notin DOMAIN _bbox_annotation_cache
            /\ key \in _last_iterkeys
            /\ response # ListResponse(<<0, 0>>)
            /\ lastRead'.key = key
            /\ GetAnnotations(key, project_id, response) )
          => /\ lastRead'.path = "batch"
             /\ lastRead'.raised # "none"
             /\ lastRead'.ret = <<>>
             /\ _response_status(response) # 0 => lastRead'.raised = "ValueError"
             /\ _bbox_annotation_cache' = _bbox_annotation_cache
             /\ attrs' = attrs
             /\ _last_iterkeys' = _last_iterkeys
             /\ batchQueries' = batchQueries + 1
             /\ \A k \in _last_iterkeys : k \notin DOMAIN _bbox_annotation_cache' ]_vars

\* The batched query issued a second time for the page, after a first one
\* failed, and failing on a single command.
C13_Witness ==
    /\ lastRead.path = "batch"
    /\ lastRead.raised = "KeyError"
    /\ batchQueries = 2
    /\ batchServed = 0
    /\ lastRead.key \in _last_iterkeys
    /\ Cardinality(_last_iterkeys) = 3
    /\ _bbox_annotation_cache = EmptyMap

C17_BatchFillsCache ==
    [][ \A key \in ProbeKeys, project_id \in Projects :
          ( /\ key \notin DOMAIN _bbox_annotation_cache
            /\ key \in _last_iterkeys
            /\ lastRead'.key = key
            /\ GetAnnotations(key, project_id, ListResponse(<<0, 0>>)) )
          => /\ batchQueries' = batchQueries + 1
             /\ lastRead'.path = "batch"
             /\ lastRead'.raised = "none"
             /\ DOMAIN _bbox_annotation_cache' = _last_iterkeys
             /\ \A k \in _last_iterkeys :
                   _bbox_annotation_cache'[k] = StoreTuple(k, project_id)
             /\ lastRead'.ret = <<_bbox_annotation_cache'[key]>>
             /\ _last_iterkeys' = _last_iterkeys ]_vars

\* The first read on the second page has filled the cache with the hundred
\* keys of that page.
C17_Witness ==
    /\ lastRead.path = "batch"
    /\ lastRead.raised = "none"
    /\ lastRead.key = batch + 1
    /\ batchQueries = 1
    /\ DOMAIN _bbox_annotation_cache = _last_iterkeys
    /\ Cardinality(_last_iterkeys) = batch

\* C18 as stated: a read of any key that is neither cached nor in the current
\* batch returns the tuple of the key and leaves cache and batch unchanged.
C18_Original ==
    [][ \A key \in ProbeKeys, project_id \in Projects :
          ( /\ key \notin DOMAIN _bbox_annotation_cache
            /\ key \notin _last_iterkeys
            /\ lastRead'.key = key
            /\ GetAnnotations(key, project_id, ListResponse(<<0, 0>>)) )
          => /\ lastRead'.path = "single"
             /\ lastRead'.raised = "none"
             /\ lastRead'.ret = <<StoreTuple(key, project_id)>>
             /\ _bbox_annotation_cache' = _bbox_annotation_cache
             /\ attrs' = attrs
             /\ _last_iterkeys' = _last_iterkeys ]_vars

\* C18 amended: such a read, answered regularly, takes the single-key path
\* and leaves cache and batch unchanged; it returns the tuple of the key when
\* the store holds the image, and raises StopIteration when it does not.
C18_SingleKeyRead ==
    [][ \A key \in ProbeKeys, project_id \in Projects :
          ( /\ key \notin DOMAIN _bbox_annotation_cache
            /\ key \notin _last_iterkeys
            /\ lastRead'.key = key
            /\ GetAnnotations(key, project_id, ListResponse(<<0, 0>>)) )
          => /\ lastRead'.path = "single"
             /\ IF key \in Range(images)
                THEN /\ lastRead'.raised = "none"
                     /\ lastRead'.ret = <<StoreTuple(key, project_id)>>
                ELSE /\ lastRead'.raised = "StopIteration"
                     /\ lastRead'.ret = <<>>
             /\ _bbox_annotation_cache' = _bbox_annotation_cache
             /\ attrs' = attrs
             /\ _last_iterkeys' = _last_iterkeys
             /\ batchQueries' = batchQueries ]_vars

\* A key of the second page read while the first page is the batch and its
\* hundred entries are cached.
C18_Witness ==
    /\ lastRead.path = "single"
    /\ lastRead.raised = "none"
    /\ lastRead.key = batch + 1
    /\ lastRead.key \notin _last_iterkeys
    /\ Cardinality(DOMAIN _bbox_annotation_cache) = batch
    /\ lastRead.ret = <<StoreTuple(batch + 1, 1)>>

\* A FindImage query of iterkeys was answered with status 0.
PageFetched == Len(offsets') = Len(offsets) + 1 /\ scan_pc' # "failed"

\* C19 as stated: after each page fetch the batch is the key set of the page
\* just fetched and the cache is empty.
C19_Original ==
    [][ PageFetched =>
           /\ _last_iterkeys' = Range(FindImage(offset'))
           /\ _bbox_annotation_cache' = EmptyMap ]_vars

\* C19 amended: after each page fetch that returns at least one key the batch
\* is the key set of that page and the cache is empty, so that while a page
\* is yielded the cache holds entries of that page only; a fetch that returns
\* no key leaves batch and cache as they were.
C19_PageResetsBatchAndCache ==
    /\ [][ PageFetched =>
             IF FindImage(offset') # <<>>
             THEN /\ _last_iterkeys' = Range(FindImage(offset'))
                  /\ _bbox_annotation_cache' = EmptyMap
                  /\ {"_last_iterkeys", "_bbox_annotation_cache"} \subseteq attrs'
             ELSE /\ _last_iterkeys' = _last_iterkeys
                  /\ _bbox_annotation_cache' = _bbox_annotation_cache
                  /\ scan_pc' = "done" ]_vars
    /\ [](scan_pc = "yielding" =>
             /\ _last_iterkeys = Range(ids)
             /\ DOMAIN _bbox_annotation_cache \subseteq Range(ids))

\* The second page has just been fetched after a read of the first page had
\* filled the cache.
C19_Witness ==
    /\ scan_pc = "yielding"
    /\ Len(offsets) = 2
    /\ idx = 1
    /\ lastRead.path \in {"batch", "hit"}
    /\ lastRead.key = 1
    /\ lastRead.raised = "none"
    /\ _bbox_annotation_cache = EmptyMap
    /\ _last_iterkeys = Range(ids)
    /\ 1 \notin _last_iterkeys

\* The page queried at offsets[i] of the current scan.
Page(i) == FindImage(offsets[i])

\* The scan is over: the generator returned or raised.
Ended == scan_pc \in {"done", "failed"}

\* C21: a scan of a store of finitely many images comes to its end, with a
\* limit or without; it ends at the first page without records or when the
\* offset has reached the limit, and no page is queried after that.
C21_ScanTerminates ==
    /\ (scan_pc = "start") ~> Ended
    /\ [](\A i \in DOMAIN offsets :
             /\ limit = 0 \/ offsets[i] < limit
             /\ i < Len(offsets) => Len(Page(i)) > 0)
    /\ [](scan_pc = "done" =>
             \/ limit # 0 /\ offset >= limit
             \/ offsets # <<>> /\ Len(Page(Len(offsets))) = 0)
    /\ [][ Ended => \/ offsets' = offsets
                    \/ scan_pc' = "start" /\ offsets' = <<>> ]_vars

\* A scan without limit over one full page of keys, ended by the second
\* page, which returned no record.
C21_Witness ==
    /\ scan_pc = "done"
    /\ limit = 0
    /\ Len(offsets) = 2
    /\ Len(yielded) = batch
    /\ Len(Page(2)) = 0

\* C22: the pages of one scan are queried at offsets 0, batch, 2 * batch, ...
\* whatever number of keys a page returned; every key of a page is yielded
\* before the next page is queried; with a limit L at most ceil(L / batch)
\* pages are queried.
C22_SequentialPages ==
    /\ [](\A i \in DOMAIN offsets : offsets[i] = (i - 1) * batch)
    /\ [](\A i \in DOMAIN offsets :
             i < Len(offsets) => Range(Page(i)) \subseteq Range(yielded))
    /\ [](limit # 0 => (Len(offsets) - 1) * batch < limit \/ offsets = <<>>)
    /\ [][ offset' # offset => offset' = offset + batch \/ offset' = 0 ]_vars

\* A scan that queried a third page after a page of a single key.
C22_Witness ==
    /\ Len(offsets) = 3
    /\ Len(Page(1)) = batch
    /\ Len(Page(2)) = 1
    /\ offset = 2 * batch
    /\ Len(yielded) = batch + 1

\* C27: whatever scan steps and reads were run, one after the other, on the
\* storage object, every key of the annotation cache is a key of the current
\* scan batch.
C27_CacheWithinBatch == DOMAIN _bbox_annotation_cache \subseteq _last_iterkeys

\* The cache filled for the second page of a scan: it holds the keys of that
\* page and none of the first.
C27_Witness ==
    /\ Len(offsets) = 2
    /\ _bbox_annotation_cache # EmptyMap
    /\ DOMAIN _bbox_annotation_cache = _last_iterkeys
    /\ 1 \notin _last_iterkeys
    /\ lastRead.path = "hit"

(***************************************************************************)
(* Claims about save_annotation and delete_annotation.                     *)
(***************************************************************************)

\* C1: a save that directly follows a finished save of the same annotation
\* (regular answers of the store, nothing in between) finishes without error,
\* leaves the store as the first save left it, and inserts no entity.
C1_SaveIdempotent ==
    (lastOp.op = "save" /\ lastOp.repeat /\ ~lastOp.fault)
        => /\ lastOp.raised = "none"
           /\ ~lastOp.changed
           /\ lastOp.inserted = 0

\* C5: save finishes without error exactly when every status of the response
\* to the mutation query is 0 or 2.
C5_RaisesUnlessAll0or2 ==
    (lastOp.op = "save" /\ lastOp.stage = "mutation")
        => ( lastOp.raised = "none"
             <=> \A i \in DOMAIN lastOp.statuses : lastOp.statuses[i] \in {0, 2} )

\* C6: delete issues one query; it succeeds when the status of the answer is
\* 0 or 2; on regular answers of the store it succeeds also for an annotation
\* the store does not hold, which leaves the store unchanged, and when it
\* directly follows a delete of the same annotation.
C6_DeleteOneQuery ==
    lastOp.op = "delete"
        => /\ lastOp.queries = 1
           /\ SetMax(Range(lastOp.statuses)) \in {0, 2} => lastOp.raised = "none"
           /\ ~lastOp.fault => lastOp.raised = "none"
           /\ ~lastOp.found => ~lastOp.changed

\* A second delete in a row, of an annotation the store no longer holds,
\* answered with status 2.
C6_Witness ==
    /\ lastOp.op = "delete"
    /\ lastOp.repeat
    /\ ~lastOp.found
    /\ ~lastOp.fault
    /\ lastOp.statuses[1] = 2
    /\ lastOp.raised = "none"
    /\ store_boxes # {}

Matched(seen, id) == \E e \in seen : e["LS_id"] = id \/ e["_uniqueid"] = id

Updates(cmds, id) ==
    {i \in DOMAIN cmds : cmds[i].cmd = "UpdateBoundingBox" /\ cmds[i].id = id}

Adds(cmds, id) ==
    {i \in DOMAIN cmds : cmds[i].cmd = "AddBoundingBox" /\ cmds[i].id = id}

Connections(cmds, ref) ==
    {i \in DOMAIN cmds : cmds[i].cmd = "AddConnection" /\ cmds[i].dst = ref}

\* C14: the mutation query holds, for every merged box, exactly one
\* operation: one UpdateBoundingBox constrained by an identity field under
\* which a box of the reconnaissance answer carries the identifier, when
\* there is such a box; otherwise one AddBoundingBox on the image with one
\* LS_annotation_region connection from the annotation entity.  Executed, an
\* insert leaves a box of the image connected to the annotation.
C14_OneOperationPerBox ==
    (lastOp.op = "save" /\ lastOp.stage = "mutation") =>
        LET cmds == lastOp.commands IN
        /\ \A id \in Range(lastOp.order) :
              IF Matched(lastOp.seen, id)
              THEN /\ Cardinality(Updates(cmds, id)) = 1
                   /\ Adds(cmds, id) = {}
                   /\ \A i \in Updates(cmds, id) :
                         /\ \E e \in lastOp.seen : e[cmds[i].id_field] = id
                         /\ cmds[i].props.LS_annotation = lastOp.ann
              ELSE /\ Updates(cmds, id) = {}
                   /\ Cardinality(Adds(cmds, id)) = 1
                   /\ \A i \in Adds(cmds, id) :
                         /\ cmds[i].image_ref = 1
                         /\ cmds[i].props.LS_annotation = lastOp.ann
                         /\ Cardinality(Connections(cmds, cmds[i].ref)) = 1
                         /\ \A c \in Connections(cmds, cmds[i].ref) :
                               cmds[c].src = 2 /\ cmds[c].class = "LS_annotation_region"
                         /\ lastOp.applied =>
                               \E b \in store_boxes :
                                  /\ b.LS_id = id
                                  /\ b.image = annots[lastOp.ann].image
                                  /\ b.region_of = lastOp.ann
                                  /\ b.rectangle = cmds[i].props.rectangle
        /\ \A i \in DOMAIN cmds :
              IF cmds[i].cmd = "AddConnection"
              THEN \E j \in DOMAIN cmds :
                      cmds[j].cmd = "AddBoundingBox" /\ cmds[j].ref = cmds[i].dst
              ELSE cmds[i].id \in Range(lastOp.order)

\* A mutation query that updates one box, found under its _uniqueid, and
\* inserts another.
C14_Witness ==
    /\ lastOp.op = "save" /\ lastOp.stage = "mutation"
    /\ lastOp.applied /\ lastOp.raised = "none"
    /\ Len(lastOp.order) = 2
    /\ \E i, j \in DOMAIN lastOp.commands :
          /\ lastOp.commands[i].cmd = "UpdateBoundingBox"
          /\ lastOp.commands[i].id_field = "_uniqueid"
          /\ lastOp.commands[j].cmd = "AddBoundingBox"

\* C23: for every merged identifier, the update is addressed through LS_id
\* when a box of the reconnaissance answer carries the identifier as its
\* LS_id, and through _uniqueid only when none does and a box carries it as
\* its _uniqueid; in whatever order the answer lists the boxes.
C23_PrefersTaskId ==
    (lastOp.op = "save" /\ lastOp.stage = "mutation") =>
        \A id \in Range(lastOp.order) :
        \A i \in Updates(lastOp.commands, id) :
            IF \E e \in lastOp.seen : e["LS_id"] = id
            THEN lastOp.commands[i].id_field = "LS_id"
            ELSE /\ lastOp.commands[i].id_field = "_uniqueid"
                 /\ \E e \in lastOp.seen : e["_uniqueid"] = id

\* The latest operation was `op` on annotation a, answered regularly by the
\* store and finished without error.
Done(last, op, a) ==
    /\ last.op = op
    /\ last.ann = a
    /\ last.raised = "none"
    /\ ~last.fault

\* C26: a delete that follows a save of the same annotation, with no other
\* job in between, leaves the store without the annotation entity, without
\* the boxes the save inserted for it and without a box whose LS_annotation
\* property names the annotation.
C26_DeleteAfterSave ==
    [][ \A a \in DOMAIN annots :
          ( /\ Done(lastOp, "save", a)
            /\ lastOp.stage = "mutation"
            /\ Done(lastOp', "delete", a) )
          => /\ \A e \in store_anns' : e.LS_id # a
             /\ \A b \in store_boxes' : b.region_of # a
             /\ \A b \in store_boxes' : b.LS_annotation # a ]_vars

BoxesIn(boxes, img_id, id_) == {b \in boxes : b.image = img_id /\ b.LS_id = id_}

NoDuplicateIds ==
    \A b, c \in store_boxes :
        (b.image = c.image /\ b.LS_id = c.LS_id /\ b.LS_id # None) => b = c

\* C20: a save whose reconnaissance answer did not hold a box of identifier
\* X, run when the image has got such a box in the meantime, inserts a second
\* one; when jobs run one after another (and the store answers regularly) no
\* image ever has two boxes of one LS_id.
C20_RaceDuplicates ==
    /\ [](sched = "serial" => NoDuplicateIds)
    /\ [][ \A w \in Writers :
              SaveMutate(w, FALSE) =>
                 \A id \in NewBoxes(wjob[w]) :
                    BoxesIn(store_boxes, annots[wjob[w].ann].image, id) # {} =>
                       Cardinality(BoxesIn(store_boxes', annots[wjob[w].ann].image, id)) >= 2
         ]_vars

\* Two interleaved saves of one annotation have each inserted a box of the
\* same identifier on the image.
C20_Witness ==
    /\ sched = "concurrent"
    /\ lastOp.op = "save" /\ lastOp.stage = "mutation" /\ lastOp.raised = "none"
    /\ \E b, c \in store_boxes :
          /\ b # c
          /\ b.image = c.image /\ b.LS_id = c.LS_id /\ b.LS_id # None
          /\ b.LS_annotation = lastOp.ann /\ c.LS_annotation = lastOp.ann
          /\ ~Matched(lastOp.seen, b.LS_id)

(***************************************************************************)
(* Claims about get_connection and the job dispatch.                       *)
(***************************************************************************)

\* C11: under every interleaving of get_connection calls on one storage
\* object at most one connector is constructed, and every call that returns,
\* concurrent or later, returns that one connector.
C11_OneConnection ==
    /\ connectors <= 1
    /\ \A r \in returns : r # NoConnection /\ r = _db
    /\ \A t \in Threads : tcall[t].ret \in {NoConnection, _db}

\* Two calls that both found no connection at line 65 and a later, lock-free
\* call have all returned the one connector.
C11_Witness ==
    /\ connectors = 1
    /\ \E t1, t2, t3 \in Threads :
          /\ t1 # t2
          /\ tcall[t1].path = "locked" /\ tcall[t1].ret = _db
          /\ tcall[t2].path = "locked" /\ tcall[t2].ret = _db
          /\ tcall[t3].path = "lockfree" /\ tcall[t3].ret = _db
    /\ _db # NoConnection

\* C15: a signal schedules a job only when the project has an export storage
\* at that moment; handled with no export storage, it schedules nothing and
\* runs no storage operation; storage operations are run by jobs only, one per
\* export storage the project has when the job runs.
C15_EnqueueOnlyWithStorage ==
    /\ [](lastEvent.scheduled => lastEvent.exists)
    /\ [][ events' # events =>
              /\ (storages = 0 => jobs' = jobs)
              /\ opCalls' = opCalls ]_vars
    /\ [][ opCalls' # opCalls => (jobs # <<>> /\ storages > 0) ]_vars

\* A signal handled with no export storage after one that scheduled a job,
\* which ran on two export storages.
C15_Witness ==
    /\ events >= 2
    /\ lastEvent.operation = "delete_annotation"
    /\ ~lastEvent.exists /\ ~lastEvent.scheduled
    /\ opCalls = MaxStorages
    /\ jobs = <<>>

====
